---- MODULE Spec2Model ----
(***************************************************************************)
(* A model of the ZIP container codec: the ZipCrypto stream cipher         *)
(* (std-zip20-enc), the three record codecs (zip), and the entry/archive   *)
(* operations of libzip.                                                   *)
(*                                                                         *)
(* 32-bit words are kept as little-endian 4-tuples of bytes <<b0,b1,b2,b3>>*)
(* so that all arithmetic is exact modulo 2^32.                            *)
(***************************************************************************)
EXTENDS Integers, Sequences, FiniteSets, TLC

\* ------------------------------------------------------------------------
\* Bytes and 32-bit words
\* ------------------------------------------------------------------------
\* a ^ b on two 4-bit values, at index 16 * a + b + 1
xorNibble == <<
    0, 1, 2, 3, 4, 5, 6, 7, 8, 9, 10, 11, 12, 13, 14, 15,
    1, 0, 3, 2, 5, 4, 7, 6, 9, 8, 11, 10, 13, 12, 15, 14,
    2, 3, 0, 1, 6, 7, 4, 5, 10, 11, 8, 9, 14, 15, 12, 13,
    3, 2, 1, 0, 7, 6, 5, 4, 11, 10, 9, 8, 15, 14, 13, 12,
    4, 5, 6, 7, 0, 1, 2, 3, 12, 13, 14, 15, 8, 9, 10, 11,
    5, 4, 7, 6, 1, 0, 3, 2, 13, 12, 15, 14, 9, 8, 11, 10,
    6, 7, 4, 5, 2, 3, 0, 1, 14, 15, 12, 13, 10, 11, 8, 9,
    7, 6, 5, 4, 3, 2, 1, 0, 15, 14, 13, 12, 11, 10, 9, 8,
    8, 9, 10, 11, 12, 13, 14, 15, 0, 1, 2, 3, 4, 5, 6, 7,
    9, 8, 11, 10, 13, 12, 15, 14, 1, 0, 3, 2, 5, 4, 7, 6,
    10, 11, 8, 9, 14, 15, 12, 13, 2, 3, 0, 1, 6, 7, 4, 5,
    11, 10, 9, 8, 15, 14, 13, 12, 3, 2, 1, 0, 7, 6, 5, 4,
    12, 13, 14, 15, 8, 9, 10, 11, 4, 5, 6, 7, 0, 1, 2, 3,
    13, 12, 15, 14, 9, 8, 11, 10, 5, 4, 7, 6, 1, 0, 3, 2,
    14, 15, 12, 13, 10, 11, 8, 9, 6, 7, 4, 5, 2, 3, 0, 1,
    15, 14, 13, 12, 11, 10, 9, 8, 7, 6, 5, 4, 3, 2, 1, 0
>>

\* a ^ b on two bytes
Xor8(a, b) ==
    xorNibble[16 * (a % 16) + (b % 16) + 1]
    + 16 * xorNibble[16 * (a \div 16) + (b \div 16) + 1]

\* x ^ y on two words
XorW(x, y) == <<Xor8(x[1], y[1]), Xor8(x[2], y[2]), Xor8(x[3], y[3]), Xor8(x[4], y[4])>>

\* x >>> 8
Shr8(x) == <<x[2], x[3], x[4], 0>>

\* (x + n) mod 2^32 for a word x and 0 <= n < 2^16   (_uint32 of a sum)
AddW(x, n) ==
    LET s1 == x[1] + (n % 256)
        s2 == x[2] + (n \div 256) + (s1 \div 256)
        s3 == x[3] + (s2 \div 256)
        s4 == x[4] + (s3 \div 256)
    IN  <<s1 % 256, s2 % 256, s3 % 256, s4 % 256>>

\* Math.imul(x, y): the low 32 bits of the product
Imul(x, y) ==
    LET c1 == x[1] * y[1]
        c2 == x[1] * y[2] + x[2] * y[1] + (c1 \div 256)
        c3 == x[1] * y[3] + x[2] * y[2] + x[3] * y[1] + (c2 \div 256)
        c4 == x[1] * y[4] + x[2] * y[3] + x[3] * y[2] + x[4] * y[1] + (c3 \div 256)
    IN  <<c1 % 256, c2 % 256, c3 % 256, c4 % 256>>

\* the word of a small natural number (n < 2^31)
ToWord(n) == <<n % 256, (n \div 256) % 256, (n \div 65536) % 256, (n \div 16777216) % 256>>

\* the number of a word whose top bit is clear
FromWord(w) == w[1] + 256 * w[2] + 65536 * w[3] + 16777216 * w[4]

\* ------------------------------------------------------------------------
\* CRC-32 (IEEE, reflected polynomial 0xEDB88320)
\* ------------------------------------------------------------------------
crcTable == <<
    <<0,0,0,0>>, <<150,48,7,119>>, <<44,97,14,238>>, <<186,81,9,153>>,
    <<25,196,109,7>>, <<143,244,106,112>>, <<53,165,99,233>>, <<163,149,100,158>>,
    <<50,136,219,14>>, <<164,184,220,121>>, <<30,233,213,224>>, <<136,217,210,151>>,
    <<43,76,182,9>>, <<189,124,177,126>>, <<7,45,184,231>>, <<145,29,191,144>>,
    <<100,16,183,29>>, <<242,32,176,106>>, <<72,113,185,243>>, <<222,65,190,132>>,
    <<125,212,218,26>>, <<235,228,221,109>>, <<81,181,212,244>>, <<199,133,211,131>>,
    <<86,152,108,19>>, <<192,168,107,100>>, <<122,249,98,253>>, <<236,201,101,138>>,
    <<79,92,1,20>>, <<217,108,6,99>>, <<99,61,15,250>>, <<245,13,8,141>>,
    <<200,32,110,59>>, <<94,16,105,76>>, <<228,65,96,213>>, <<114,113,103,162>>,
    <<209,228,3,60>>, <<71,212,4,75>>, <<253,133,13,210>>, <<107,181,10,165>>,
    <<250,168,181,53>>, <<108,152,178,66>>, <<214,201,187,219>>, <<64,249,188,172>>,
    <<227,108,216,50>>, <<117,92,223,69>>, <<207,13,214,220>>, <<89,61,209,171>>,
    <<172,48,217,38>>, <<58,0,222,81>>, <<128,81,215,200>>, <<22,97,208,191>>,
    <<181,244,180,33>>, <<35,196,179,86>>, <<153,149,186,207>>, <<15,165,189,184>>,
    <<158,184,2,40>>, <<8,136,5,95>>, <<178,217,12,198>>, <<36,233,11,177>>,
    <<135,124,111,47>>, <<17,76,104,88>>, <<171,29,97,193>>, <<61,45,102,182>>,
    <<144,65,220,118>>, <<6,113,219,1>>, <<188,32,210,152>>, <<42,16,213,239>>,
    <<137,133,177,113>>, <<31,181,182,6>>, <<165,228,191,159>>, <<51,212,184,232>>,
    <<162,201,7,120>>, <<52,249,0,15>>, <<142,168,9,150>>, <<24,152,14,225>>,
    <<187,13,106,127>>, <<45,61,109,8>>, <<151,108,100,145>>, <<1,92,99,230>>,
    <<244,81,107,107>>, <<98,97,108,28>>, <<216,48,101,133>>, <<78,0,98,242>>,
    <<237,149,6,108>>, <<123,165,1,27>>, <<193,244,8,130>>, <<87,196,15,245>>,
    <<198,217,176,101>>, <<80,233,183,18>>, <<234,184,190,139>>, <<124,136,185,252>>,
    <<223,29,221,98>>, <<73,45,218,21>>, <<243,124,211,140>>, <<101,76,212,251>>,
    <<88,97,178,77>>, <<206,81,181,58>>, <<116,0,188,163>>, <<226,48,187,212>>,
    <<65,165,223,74>>, <<215,149,216,61>>, <<109,196,209,164>>, <<251,244,214,211>>,
    <<106,233,105,67>>, <<252,217,110,52>>, <<70,136,103,173>>, <<208,184,96,218>>,
    <<115,45,4,68>>, <<229,29,3,51>>, <<95,76,10,170>>, <<201,124,13,221>>,
    <<60,113,5,80>>, <<170,65,2,39>>, <<16,16,11,190>>, <<134,32,12,201>>,
    <<37,181,104,87>>, <<179,133,111,32>>, <<9,212,102,185>>, <<159,228,97,206>>,
    <<14,249,222,94>>, <<152,201,217,41>>, <<34,152,208,176>>, <<180,168,215,199>>,
    <<23,61,179,89>>, <<129,13,180,46>>, <<59,92,189,183>>, <<173,108,186,192>>,
    <<32,131,184,237>>, <<182,179,191,154>>, <<12,226,182,3>>, <<154,210,177,116>>,
    <<57,71,213,234>>, <<175,119,210,157>>, <<21,38,219,4>>, <<131,22,220,115>>,
    <<18,11,99,227>>, <<132,59,100,148>>, <<62,106,109,13>>, <<168,90,106,122>>,
    <<11,207,14,228>>, <<157,255,9,147>>, <<39,174,0,10>>, <<177,158,7,125>>,
    <<68,147,15,240>>, <<210,163,8,135>>, <<104,242,1,30>>, <<254,194,6,105>>,
    <<93,87,98,247>>, <<203,103,101,128>>, <<113,54,108,25>>, <<231,6,107,110>>,
    <<118,27,212,254>>, <<224,43,211,137>>, <<90,122,218,16>>, <<204,74,221,103>>,
    <<111,223,185,249>>, <<249,239,190,142>>, <<67,190,183,23>>, <<213,142,176,96>>,
    <<232,163,214,214>>, <<126,147,209,161>>, <<196,194,216,56>>, <<82,242,223,79>>,
    <<241,103,187,209>>, <<103,87,188,166>>, <<221,6,181,63>>, <<75,54,178,72>>,
    <<218,43,13,216>>, <<76,27,10,175>>, <<246,74,3,54>>, <<96,122,4,65>>,
    <<195,239,96,223>>, <<85,223,103,168>>, <<239,142,110,49>>, <<121,190,105,70>>,
    <<140,179,97,203>>, <<26,131,102,188>>, <<160,210,111,37>>, <<54,226,104,82>>,
    <<149,119,12,204>>, <<3,71,11,187>>, <<185,22,2,34>>, <<47,38,5,85>>,
    <<190,59,186,197>>, <<40,11,189,178>>, <<146,90,180,43>>, <<4,106,179,92>>,
    <<167,255,215,194>>, <<49,207,208,181>>, <<139,158,217,44>>, <<29,174,222,91>>,
    <<176,194,100,155>>, <<38,242,99,236>>, <<156,163,106,117>>, <<10,147,109,2>>,
    <<169,6,9,156>>, <<63,54,14,235>>, <<133,103,7,114>>, <<19,87,0,5>>,
    <<130,74,191,149>>, <<20,122,184,226>>, <<174,43,177,123>>, <<56,27,182,12>>,
    <<155,142,210,146>>, <<13,190,213,229>>, <<183,239,220,124>>, <<33,223,219,11>>,
    <<212,210,211,134>>, <<66,226,212,241>>, <<248,179,221,104>>, <<110,131,218,31>>,
    <<205,22,190,129>>, <<91,38,185,246>>, <<225,119,176,111>>, <<119,71,183,24>>,
    <<230,90,8,136>>, <<112,106,15,255>>, <<202,59,6,102>>, <<92,11,1,17>>,
    <<255,158,101,143>>, <<105,174,98,248>>, <<211,255,107,97>>, <<69,207,108,22>>,
    <<120,226,10,160>>, <<238,210,13,215>>, <<84,131,4,78>>, <<194,179,3,57>>,
    <<97,38,103,167>>, <<247,22,96,208>>, <<77,71,105,73>>, <<219,119,110,62>>,
    <<74,106,209,174>>, <<220,90,214,217>>, <<102,11,223,64>>, <<240,59,216,55>>,
    <<83,174,188,169>>, <<197,158,187,222>>, <<127,207,178,71>>, <<233,255,181,48>>,
    <<28,242,189,189>>, <<138,194,186,202>>, <<48,147,179,83>>, <<166,163,180,36>>,
    <<5,54,208,186>>, <<147,6,215,205>>, <<41,87,222,84>>, <<191,103,217,35>>,
    <<46,122,102,179>>, <<184,74,97,196>>, <<2,27,104,93>>, <<148,43,111,42>>,
    <<55,190,11,180>>, <<161,142,12,195>>, <<27,223,5,90>>, <<141,239,2,45>>
>>

\* crc32(crc, byte): the single-byte table-driven update
crc32(crc, b) == XorW(crcTable[Xor8(crc[1], b) + 1], Shr8(crc))

RECURSIVE crcFold(_, _, _)
\* one iteration of CRC32.buf's byte loop: crc is the register after byte i
crcPush(crc, buf, i) ==
    CASE crc[1] \in 0..255 -> crcFold(crc, buf, i + 1)

crcFold(crc, buf, i) ==
    IF i > Len(buf) THEN crc
    ELSE crcPush(crc32(crc, buf[i]), buf, i)

AllOnes == <<255, 255, 255, 255>>

\* _uint32(CRC32.buf(buf)): the whole-buffer checksum
CRC32buf(buf) == XorW(crcFold(AllOnes, buf, 1), AllOnes)

\* ------------------------------------------------------------------------
\* Cipher engine (CryptoChiper, ZIP20)
\* ------------------------------------------------------------------------
\* A JavaScript string is modelled by its UTF-8 bytes; `undefined` by Undefined.
Undefined == <<-1>>

\* JavaScript truthiness of a string-or-undefined
Truthy(s) == s # Undefined /\ s # <<>>

HEADER_LENGTH == 12

InitKeys == [key0 |-> <<120, 86, 52, 18>>,      \* 0x12345678
             key1 |-> <<137, 103, 69, 35>>,     \* 0x23456789
             key2 |-> <<144, 120, 86, 52>>]     \* 0x34567890

Multiplier == <<5, 132, 8, 8>>                  \* 134775813 = 0x08088405

\* updateKeys, its three assignments in turn: key2 from the new key1,
\* key1 from the new key0, key0 from the byte
updateKey2(k, k0, k1) == [key0 |-> k0, key1 |-> k1, key2 |-> crc32(k.key2, k1[4])]

updateKey1(k, k0) == updateKey2(k, k0, AddW(Imul(AddW(k.key1, k0[1]), Multiplier), 1))

updateKeys(k, b) == updateKey1(k, crc32(k.key0, b))

streamByte(k) ==
    LET tmp == <<IF (k.key2[1] \div 2) % 2 = 1 THEN k.key2[1] ELSE k.key2[1] + 2,
                 k.key2[2], k.key2[3], k.key2[4]>>
        tmp1 == <<Xor8(tmp[1], 1), tmp[2], tmp[3], tmp[4]>>
    IN  Imul(tmp, tmp1)[2]

\* one byte of encryption: the byte out and the next key state
encryptByte(k, b) == [out |-> Xor8(streamByte(k), b), keys |-> updateKeys(k, b)]

decryptByte_cipherFeedback(k, b) ==
    [out |-> Xor8(streamByte(k), b), keys |-> updateKeys(k, b)]

\* one byte of decryption: the key state folds in the decrypted byte
decryptByte(k, b) ==
    LET decb == Xor8(streamByte(k), b)
    IN  [out |-> decb, keys |-> updateKeys(k, decb)]

RECURSIVE keyFold(_, _, _)
keyFold(k, key, i) ==
    IF i > Len(key) THEN k
    ELSE keyFold(updateKeys(k, key[i]), key, i + 1)

\* new CryptoChiper(key), for a key that is a string
CryptoChiper(key) == keyFold(InitKeys, key, 1)

\* chiper.encrypt(data) from the i-th byte on; r is the i-th encryptByte
RECURSIVE encryptFrom(_, _, _, _)
encryptPush(r, data, i, acc) ==
    CASE r.out \in 0..255 -> encryptFrom(r.keys, data, i + 1, Append(acc, r.out))

encryptFrom(k, data, i, acc) ==
    IF i > Len(data) THEN [keys |-> k, out |-> acc]
    ELSE encryptPush(encryptByte(k, data[i]), data, i, acc)

\* chiper.encrypt(data)
encrypt(k, data) == encryptFrom(k, data, 1, <<>>)

\* chiper.decrypt(data) from the i-th byte on; r is the i-th decryptByte
RECURSIVE decryptFrom(_, _, _, _)
decryptPush(r, data, i, acc) ==
    CASE r.out \in 0..255 -> decryptFrom(r.keys, data, i + 1, Append(acc, r.out))

decryptFrom(k, data, i, acc) ==
    IF i > Len(data) THEN [keys |-> k, out |-> acc]
    ELSE decryptPush(decryptByte(k, data[i]), data, i, acc)

\* chiper.decrypt(data)
decrypt(k, data) == decryptFrom(k, data, 1, <<>>)

\* crcBuf.writeUInt32LE(crc); crc = crcBuf.readUInt16LE(0);
\* header.writeUInt16LE(crc, HEADER_LENGTH - 2)
EnvelopeHeader(rnd, crc) ==
    [i \in 1..HEADER_LENGTH |->
        IF i = HEADER_LENGTH - 1 THEN crc[1]
        ELSE IF i = HEADER_LENGTH THEN crc[2]
        ELSE rnd[i]]

\* ZIP20.Encrypt(buf, key, crc) with rnd the bytes crypto.randomBytes returned
ZIP20EncryptData(h, buf) == h.out \o encrypt(h.keys, buf).out

ZIP20Encrypt(buf, key, crc, rnd) ==
    ZIP20EncryptData(encrypt(CryptoChiper(key), EnvelopeHeader(rnd, crc)), buf)

\* ZIP20.Decrypt(buf, key)
slice(buf, start) == SubSeq(buf, start + 1, Len(buf))

ZIP20Decrypt(buf, key) == slice(decrypt(CryptoChiper(key), buf).out, HEADER_LENGTH)

\* ------------------------------------------------------------------------
\* External collaborators: DEFLATE codec and the binary cursor
\* ------------------------------------------------------------------------
\* zlib.deflateRawSync(data): a raw DEFLATE stream holding data as one final
\* stored block (BFINAL=1, BTYPE=00, LEN, NLEN, bytes)
deflateRawSync(data) ==
    <<1, Len(data) % 256, Len(data) \div 256,
      255 - (Len(data) % 256), 255 - (Len(data) \div 256)>> \o data

\* zlib.inflateRawSync(data): the bytes of a well-formed stored-block stream,
\* a thrown error for anything else
inflateRawSync(data) ==
    IF /\ Len(data) >= 5
       /\ data[1] = 1
       /\ data[2] + data[4] = 255
       /\ data[3] + data[5] = 255
       /\ Len(data) = 5 + data[2] + 256 * data[3]
    THEN [err |-> "none", val |-> SubSeq(data, 6, Len(data))]
    ELSE [err |-> "InflateError", val |-> <<>>]

\* stream.writeUint16 / writeUint32
U16(n) == <<n % 256, (n \div 256) % 256>>
U32(n) == ToWord(n)

\* stream.readUint16 / readUint32 / readBuffer at offset fp
RdU16(buf, fp) == buf[fp + 1] + 256 * buf[fp + 2]
RdW(buf, fp) == <<buf[fp + 1], buf[fp + 2], buf[fp + 3], buf[fp + 4]>>
RdU32(buf, fp) == FromWord(RdW(buf, fp))
RdBuf(buf, fp, n) == SubSeq(buf, fp + 1, fp + n)
InRange(buf, fp, n) == fp >= 0 /\ fp + n <= Len(buf)

\* util: bit 0 of the general-purpose flag word is "encrypted"
parseFlag(n) == [Encrypted |-> (n % 2 = 1)]
FlagToInt16(flags) == IF flags.Encrypted THEN 1 ELSE 0

NO_COMPRESSION == 0
DEFLATED == 8

\* the packed DOS time and date of the clock reading `new Date()`
NowTime == 21
NowDate == 42

\* ------------------------------------------------------------------------
\* Record codecs (LocalFileHeader, CentralDirectory, EndOfCentralDirectory)
\* ------------------------------------------------------------------------
LFH_SIGNATURE == <<80, 75, 3, 4>>       \* 0x04034B50
CD_SIGNATURE == <<80, 75, 1, 2>>        \* 0x02014B50
EOCD_SIGNATURE == <<80, 75, 5, 6>>      \* 0x06054B50

\* new LocalFileHeader()
NewLocalFileHeader ==
    [signature |-> LFH_SIGNATURE, version |-> 10, flags |-> parseFlag(0),
     compression |-> DEFLATED, modTime |-> NowTime, modDate |-> NowDate,
     crc32 |-> ToWord(0), compressedSize |-> 0, uncompressedSize |-> 0,
     filenameLen |-> 0, extraFieldLen |-> 0, filename |-> <<>>,
     extraField |-> <<>>, data |-> <<>>]

\* new LocalFileHeader(stream) with stream.fp = fp
ParseLocalFileHeader(buf, fp) ==
    IF ~InRange(buf, fp, 30) THEN [err |-> "RangeError", val |-> NewLocalFileHeader]
    ELSE IF RdW(buf, fp) # LFH_SIGNATURE
    THEN [err |-> "Can not read LocalFileHeader", val |-> NewLocalFileHeader]
    ELSE LET fl == RdU16(buf, fp + 26)
             el == RdU16(buf, fp + 28)
             cs == RdU32(buf, fp + 18)
         IN  IF ~InRange(buf, fp + 30, fl + el + cs)
             THEN [err |-> "RangeError", val |-> NewLocalFileHeader]
             ELSE [err |-> "none",
                   val |-> [signature |-> RdW(buf, fp),
                            version |-> RdU16(buf, fp + 4),
                            flags |-> parseFlag(RdU16(buf, fp + 6)),
                            compression |-> RdU16(buf, fp + 8),
                            modTime |-> RdU16(buf, fp + 10),
                            modDate |-> RdU16(buf, fp + 12),
                            crc32 |-> RdW(buf, fp + 14),
                            compressedSize |-> cs,
                            uncompressedSize |-> RdU32(buf, fp + 22),
                            filenameLen |-> fl,
                            extraFieldLen |-> el,
                            filename |-> RdBuf(buf, fp + 30, fl),
                            extraField |-> RdBuf(buf, fp + 30 + fl, el),
                            data |-> RdBuf(buf, fp + 30 + fl + el, cs)]]

\* the bytes ReloadInfo writes for a local header followed by its payload
LocalFileHeaderBytes(h, data) ==
    h.signature \o U16(h.version) \o U16(FlagToInt16(h.flags))
    \o U16(h.compression) \o U16(h.modTime) \o U16(h.modDate)
    \o h.crc32 \o U32(h.compressedSize) \o U32(h.uncompressedSize)
    \o U16(h.filenameLen) \o U16(h.extraFieldLen)
    \o h.filename \o h.extraField \o data

\* new CentralDirectory()
NewCentralDirectory ==
    [signature |-> CD_SIGNATURE, version |-> 10, extVer |-> 16,
     flags |-> parseFlag(0), compression |-> DEFLATED,
     modTime |-> NowTime, modDate |-> NowTime,
     crc32 |-> ToWord(0), compressedSize |-> 0, uncompressedSize |-> 0,
     filenameLen |-> 0, extraFieldLen |-> 0, commentLen |-> 0,
     diskNumStart |-> 0, inAttr |-> 0, exAttr |-> 0, headerOffset |-> 0,
     filename |-> <<>>, extraField |-> <<>>, comment |-> <<>>]

\* new CentralDirectory(stream) with stream.fp = fp
ParseCentralDirectory(buf, fp) ==
    IF ~InRange(buf, fp, 4) THEN [err |-> "RangeError", val |-> NewCentralDirectory]
    ELSE IF RdW(buf, fp) # CD_SIGNATURE
    THEN [err |-> "Can not read Central Directory", val |-> NewCentralDirectory]
    ELSE IF ~InRange(buf, fp, 46)
    THEN [err |-> "RangeError", val |-> NewCentralDirectory]
    ELSE LET fl == RdU16(buf, fp + 28)
             el == RdU16(buf, fp + 30)
             cl == RdU16(buf, fp + 32)
         IN  IF ~InRange(buf, fp + 46, fl + el + cl)
             THEN [err |-> "RangeError", val |-> NewCentralDirectory]
             ELSE [err |-> "none",
                   val |-> [signature |-> RdW(buf, fp),
                            version |-> RdU16(buf, fp + 4),
                            extVer |-> RdU16(buf, fp + 6),
                            flags |-> parseFlag(RdU16(buf, fp + 8)),
                            compression |-> RdU16(buf, fp + 10),
                            modTime |-> RdU16(buf, fp + 12),
                            modDate |-> RdU16(buf, fp + 14),
                            crc32 |-> RdW(buf, fp + 16),
                            compressedSize |-> RdU32(buf, fp + 20),
                            uncompressedSize |-> RdU32(buf, fp + 24),
                            filenameLen |-> fl,
                            extraFieldLen |-> el,
                            commentLen |-> cl,
                            diskNumStart |-> RdU16(buf, fp + 34),
                            inAttr |-> RdU16(buf, fp + 36),
                            exAttr |-> RdU32(buf, fp + 38),
                            headerOffset |-> RdU32(buf, fp + 42),
                            filename |-> RdBuf(buf, fp + 46, fl),
                            extraField |-> RdBuf(buf, fp + 46 + fl, el),
                            comment |-> RdBuf(buf, fp + 46 + fl + el, cl)]]

\* the bytes ReloadInfo writes for a central directory record
CentralDirectoryBytes(c) ==
    c.signature \o U16(c.version) \o U16(c.extVer) \o U16(FlagToInt16(c.flags))
    \o U16(c.compression) \o U16(c.modTime) \o U16(c.modDate)
    \o c.crc32 \o U32(c.compressedSize) \o U32(c.uncompressedSize)
    \o U16(c.filenameLen) \o U16(c.extraFieldLen) \o U16(c.commentLen)
    \o U16(c.diskNumStart) \o U16(c.inAttr) \o U32(c.exAttr)
    \o U32(c.headerOffset) \o c.filename \o c.extraField \o c.comment

\* new EndOfCentralDirectory()
NewEndOfCentralDirectory ==
    [signature |-> EOCD_SIGNATURE, diskNum |-> 0, diskStart |-> 0,
     recordNum |-> 0, totalNum |-> 0, recordSize |-> 0, recordStart |-> 0,
     commentLen |-> 0, comment |-> <<>>]

\* new EndOfCentralDirectory(stream) with stream.fp = fp
ParseEndOfCentralDirectory(buf, fp) ==
    IF ~InRange(buf, fp, 4) THEN [err |-> "RangeError", val |-> NewEndOfCentralDirectory]
    ELSE IF RdW(buf, fp) # EOCD_SIGNATURE
    THEN [err |-> "Can not read End of Central Directory", val |-> NewEndOfCentralDirectory]
    ELSE IF ~InRange(buf, fp, 22) \/ ~InRange(buf, fp + 22, RdU16(buf, fp + 20))
    THEN [err |-> "RangeError", val |-> NewEndOfCentralDirectory]
    ELSE [err |-> "none",
          val |-> [signature |-> RdW(buf, fp),
                   diskNum |-> RdU16(buf, fp + 4),
                   diskStart |-> RdU16(buf, fp + 6),
                   recordNum |-> RdU16(buf, fp + 8),
                   totalNum |-> RdU16(buf, fp + 10),
                   recordSize |-> RdU32(buf, fp + 12),
                   recordStart |-> RdU32(buf, fp + 16),
                   commentLen |-> RdU16(buf, fp + 20),
                   comment |-> RdBuf(buf, fp + 22, RdU16(buf, fp + 20))]]

\* the bytes ReloadInfo writes for the end record
EndOfCentralDirectoryBytes(e) ==
    e.signature \o U16(e.diskNum) \o U16(e.diskStart) \o U16(e.recordNum)
    \o U16(e.totalNum) \o U32(e.recordSize) \o U32(e.recordStart)
    \o U16(e.commentLen) \o e.comment

\* EndOfCentralDirectory.isEOCD(stream) with stream.fp = fp, fp in range
isEOCD(buf, fp) == RdW(buf, fp) = EOCD_SIGNATURE

\* ------------------------------------------------------------------------
\* Archive entry (ZipArchiveEntry).  An entry object is a record
\* [central, header, passwd, raw]; passwd and raw start out undefined.
\* ------------------------------------------------------------------------
\* set Password(val)
SetPassword(e, val) ==
    IF Truthy(val)
    THEN [e EXCEPT !.passwd = val,
                   !.header.flags.Encrypted = TRUE,
                   !.central.flags.Encrypted = TRUE]
    ELSE [e EXCEPT !.passwd = val,
                   !.header.flags.Encrypted = FALSE,
                   !.central.flags.Encrypted = TRUE]

\* the record of one ZIP20.Encrypt call: the 12-byte header before
\* encryption, the plaintext of the entry, the compressed bytes, the result
Envelope(rnd, crc, plain, comp, key) ==
    [used |-> TRUE, header |-> EnvelopeHeader(rnd, crc), plain |-> plain,
     comp |-> comp, out |-> ZIP20Encrypt(comp, key, crc, rnd)]

NoEnvelope == [used |-> FALSE, header |-> <<>>, plain |-> <<>>, comp |-> <<>>, out |-> <<>>]

\* Compress(data): the entry with its header updated, the payload, and the
\* ZIP20.Encrypt call made (if any)
CompressEncrypted(e1, env) ==
    [e |-> [e1 EXCEPT !.header.flags.Encrypted = TRUE], data |-> env.out, env |-> env]

Compress(e, data, archivePassword, rnd) ==
    LET d == deflateRawSync(data)
        e1 == [e EXCEPT !.header.compression = DEFLATED]
    IN  IF Truthy(e.passwd)
        THEN CompressEncrypted(e1, Envelope(rnd, e.central.crc32, data, d, e.passwd))
        ELSE IF Truthy(archivePassword)
        THEN CompressEncrypted(e1, Envelope(rnd, e.central.crc32, data, d, archivePassword))
        ELSE [e |-> [e1 EXCEPT !.header.flags.Encrypted = FALSE],
              data |-> d, env |-> NoEnvelope]

\* Write(data)
WriteCompressed(c) ==
    [e |-> [c.e EXCEPT !.header.data = c.data,
                       !.header.modTime = NowTime,
                       !.header.modDate = NowDate,
                       !.central.modTime = NowTime,
                       !.central.modDate = NowDate,
                       !.header.compressedSize = Len(c.data),
                       !.central.compressedSize = Len(c.data)],
     env |-> c.env]

WriteEntry(e, data, archivePassword, rnd) ==
    WriteCompressed(Compress([e EXCEPT !.header.uncompressedSize = Len(data),
                                       !.central.uncompressedSize = Len(data),
                                       !.raw = data],
                             data, archivePassword, rnd))

\* Uncompress(data): the error thrown (or "none"), the entry afterwards and
\* the bytes returned
\* the switch on header.compression, d the bytes after any decryption
UncompressSwitch(e, d) ==
    LET inf == inflateRawSync(d)
    IN  IF e.header.compression = NO_COMPRESSION
        THEN [err |-> "none", e |-> [e EXCEPT !.raw = d], val |-> d]
        ELSE IF e.header.compression = DEFLATED
        THEN IF inf.err = "none"
             THEN [err |-> "none", e |-> [e EXCEPT !.raw = inf.val], val |-> inf.val]
             ELSE [err |-> inf.err, e |-> e, val |-> <<>>]
        ELSE [err |-> "Unknown compression method", e |-> e, val |-> <<>>]

Uncompress(e, data, archivePassword) ==
    LET key == IF Truthy(e.passwd) THEN e.passwd ELSE archivePassword
    IN  IF ~e.header.flags.Encrypted THEN UncompressSwitch(e, data)
        ELSE IF key = Undefined THEN [err |-> "TypeError", e |-> e, val |-> <<>>]
        ELSE UncompressSwitch(e, ZIP20Decrypt(data, key))

\* Read()
ReadEntry(e, archivePassword) == Uncompress(e, e.header.data, archivePassword)

\* new ZipArchiveEntry(archive, stream) with stream.fp = fp; the archive
\* under construction has the empty password
\* the constructor after its Read() returned or threw r
ParseEntryRead(r, next) == [err |-> r.err, e |-> r.e, fp |-> next]

\* the constructor after the two records c and h were parsed
ParseEntryRecords(fp, c, h) ==
    LET e0 == [central |-> c.val, header |-> h.val, passwd |-> Undefined, raw |-> Undefined]
        next == fp + 46 + c.val.filenameLen + c.val.extraFieldLen + c.val.commentLen
    IN  IF c.err # "none" THEN [err |-> c.err, e |-> e0, fp |-> fp]
        ELSE IF h.err # "none" THEN [err |-> h.err, e |-> e0, fp |-> fp]
        ELSE IF c.val.flags.Encrypted = FALSE
        THEN ParseEntryRead(ReadEntry(e0, <<>>), next)
        ELSE [err |-> "none", e |-> e0, fp |-> next]

\* the constructor after the central directory record c was parsed
ParseEntryCentral(buf, fp, c) ==
    ParseEntryRecords(fp, c, ParseLocalFileHeader(buf, c.val.headerOffset))

ParseEntry(buf, fp) == ParseEntryCentral(buf, fp, ParseCentralDirectory(buf, fp))

\* ------------------------------------------------------------------------
\* Archive (ZipArchive)
\* ------------------------------------------------------------------------
\* the offset ReloadInfo stores in central.headerOffset for an entry written
\* at cursor fp
HeaderOffsetAt_stale(central, fp) == central.headerOffset

HeaderOffsetAt(central, fp) == fp

\* the body of ReloadInfo's first loop for one entry written at cursor fp
\* the rest of the loop body once data is known: the sizes, then the writes
ReloadWrite(e1, data, env) ==
    LET e2 == [e1 EXCEPT !.central.compressedSize = Len(data),
                         !.header.compressedSize = Len(data)]
    IN  [err |-> "none", e |-> e2,
         bytes |-> LocalFileHeaderBytes(e2.header, data), env |-> env]

ReloadEncrypted(e1, env) == ReloadWrite(e1, env.out, env)

\* the loop body once crc32 is known
ReloadChecksummed(e, fp, rnd, crc) ==
    LET packed == IF e.header.compression = DEFLATED
                    THEN deflateRawSync(e.raw) ELSE e.raw
        e1 == [e EXCEPT !.central.headerOffset = HeaderOffsetAt(e.central, fp),
                        !.central.crc32 = crc,
                        !.header.crc32 = crc]
    IN  IF e.header.flags.Encrypted
        THEN IF e.passwd = Undefined
             THEN [err |-> "TypeError", e |-> e, bytes |-> <<>>, env |-> NoEnvelope]
             ELSE ReloadEncrypted(e1, Envelope(rnd, crc, e.raw, packed, e.passwd))
        ELSE IF e.header.compression # DEFLATED
        THEN [err |-> "TypeError", e |-> e1, bytes |-> <<>>, env |-> NoEnvelope]
        ELSE ReloadWrite(e1, packed, NoEnvelope)

ReloadEntry(e, fp, rnd) ==
    IF e.raw = Undefined
    THEN [err |-> "TypeError", e |-> e, bytes |-> <<>>, env |-> NoEnvelope]
    ELSE ReloadChecksummed(e, fp, rnd, CRC32buf(e.raw))

\* ReloadInfo's first loop from the i-th entry on; st = [err, objs, out, envs]
\* the loop state after the body ran for entry object id with result r
ReloadStep(st, id, r) ==
    [err |-> r.err,
     objs |-> [st.objs EXCEPT ![id] = r.e],
     out |-> st.out \o r.bytes,
     envs |-> IF r.env.used THEN Append(st.envs, r.env) ELSE st.envs]

RECURSIVE ReloadEntries(_, _, _, _)
ReloadEntries(st, ents, i, rnds) ==
    IF i > Len(ents) \/ st.err # "none" THEN st
    ELSE ReloadEntries(ReloadStep(st, ents[i],
                                  ReloadEntry(st.objs[ents[i]], Len(st.out), rnds[i])),
                       ents, i + 1, rnds)

\* ReloadInfo's second loop: the central directory records of entries i..
RECURSIVE CentralRecords(_, _, _)
CentralRecords(obs, ents, i) ==
    IF i > Len(ents) THEN <<>>
    ELSE CentralDirectoryBytes(obs[ents[i]].central) \o CentralRecords(obs, ents, i + 1)

\* ReloadInfo() after its first loop ended in state first
ReloadDirectory(first, ents, eof, strm) ==
    LET cd == CentralRecords(first.objs, ents, 1)
        eof2 == [eof EXCEPT !.recordSize = Len(cd),
                            !.recordStart = IF Len(ents) > 0 THEN Len(first.out) ELSE @,
                            !.totalNum = eof.totalNum - eof.recordNum + Len(ents),
                            !.recordNum = Len(ents)]
    IN  IF first.err # "none"
        THEN [err |-> first.err, objs |-> first.objs, eofDir |-> eof,
              stream |-> strm, envs |-> first.envs]
        ELSE [err |-> "none", objs |-> first.objs, eofDir |-> eof2,
              stream |-> first.out \o cd \o EndOfCentralDirectoryBytes(eof2),
              envs |-> first.envs]

\* ReloadInfo(): the error thrown (or "none") and the archive afterwards
ReloadInfo(obs, ents, eof, strm, rnds) ==
    ReloadDirectory(ReloadEntries([err |-> "none", objs |-> obs, out |-> <<>>, envs |-> <<>>],
                                  ents, 1, rnds),
                    ents, eof, strm)

\* the index of the first entry whose FullName is name, 0 if there is none
\* (entries.findIndex, shifted by one)
RECURSIVE findIndexFrom(_, _, _, _)
findIndexFrom(obs, ents, name, i) ==
    IF i > Len(ents) THEN 0
    ELSE IF obs[ents[i]].central.filename = name THEN i
    ELSE findIndexFrom(obs, ents, name, i + 1)

findIndex(obs, ents, name) == findIndexFrom(obs, ents, name, 1)

\* entries.splice(idx, 1)
splice(ents, idx) == SubSeq(ents, 1, idx - 1) \o SubSeq(ents, idx + 1, Len(ents))

\* CreateEntry(entryName, buf): the new entry object
NewEntry(entryName, buf, archivePassword, rnd) ==
    LET enc == Truthy(archivePassword)
        central == [NewCentralDirectory EXCEPT !.filename = entryName,
                                               !.filenameLen = Len(entryName),
                                               !.flags.Encrypted = enc]
        header == [NewLocalFileHeader EXCEPT !.filename = entryName,
                                             !.filenameLen = Len(entryName),
                                             !.flags.Encrypted = enc]
        e == [central |-> central, header |-> header, passwd |-> Undefined, raw |-> Undefined]
    IN  IF buf = Undefined THEN [e |-> e, env |-> NoEnvelope]
        ELSE WriteEntry(e, buf, archivePassword, rnd)

\* the backward scan of the constructor from stream.fp = fp (fp in range):
\* the offset of the end record, or -1 when the constructor throws
RECURSIVE ScanFrom(_, _)
ScanFrom(buf, fp) ==
    IF isEOCD(buf, fp) THEN fp
    ELSE IF fp = 0 THEN -1
    ELSE ScanFrom(buf, fp - 1)

\* the constructor's loop over the central directory: entries i.. of n,
\* the i-th parsed at cursor fp
RECURSIVE ParseEntries(_, _, _, _, _)
ParseEntriesPush(buf, r, i, n, acc) ==
    IF r.err # "none" THEN [err |-> r.err, objs |-> acc]
    ELSE ParseEntries(buf, r.fp, i + 1, n, Append(acc, r.e))

ParseEntries(buf, fp, i, n, acc) ==
    IF i > n THEN [err |-> "none", objs |-> acc]
    ELSE ParseEntriesPush(buf, ParseEntry(buf, fp), i, n, acc)

\* new ZipArchive(filename, buf) for a buffer of at least 4 bytes
\* the constructor after its loop over the central directory returned ents
OpenEntries(eof, ents) == [err |-> ents.err, objs |-> ents.objs, eofDir |-> eof.val]

\* the constructor after the end record eof was parsed
OpenDirectory(buf, eof) ==
    IF eof.err # "none" THEN [err |-> eof.err, objs |-> <<>>, eofDir |-> eof.val]
    ELSE OpenEntries(eof, ParseEntries(buf, eof.val.recordStart, 1, eof.val.recordNum, <<>>))

\* the constructor after the backward scan stopped at offset at
OpenScanned(buf, at) ==
    IF at < 0
    THEN [err |-> "Can not read Zip Archive", objs |-> <<>>, eofDir |-> NewEndOfCentralDirectory]
    ELSE OpenDirectory(buf, ParseEndOfCentralDirectory(buf, at))

OpenArchive(buf) == OpenScanned(buf, ScanFrom(buf, Len(buf) - 4))

\* ------------------------------------------------------------------------
\* Bounds and input sets
\* ------------------------------------------------------------------------
MaxEntries == 2         \* entry objects per archive
MaxPlainLen == 1        \* bytes of plaintext per write
MaxOtherDisk == 1       \* records an input end record claims on other disks
MaxCalls == 6           \* calls made on the archive and its entries per run
MaxBufLen == 2          \* bytes per buffer given to the cipher alone
MaxChunks == 4          \* pieces an input buffer of the scan is built from
MaxUnderrun == 6        \* how far below 0 the scan cursor is followed

RECURSIVE SeqsUpTo(_, _)
SeqsUpTo(S, n) ==
    IF n = 0 THEN {<<>>}
    ELSE LET shorter == SeqsUpTo(S, n - 1)
         IN  shorter \cup {Append(s, x) : s \in {t \in shorter : Len(t) = n - 1}, x \in S}

MaxNames == 1           \* distinct entry names
Names == {<<96 + i>> : i \in 1..MaxNames}       \* "a", "b", ...
Plaintexts == SeqsUpTo({104}, MaxPlainLen)      \* "", "h", ...
Keys == {<<115>>}                               \* "s"
Fillers == {[i \in 1..HEADER_LENGTH |-> 0], [i \in 1..HEADER_LENGTH |-> 16 * i + 1]}
\* the archive operations draw crypto.randomBytes from one value
ArchiveFillers == {[i \in 1..HEADER_LENGTH |-> 16 * i + 1]}

\* ------------------------------------------------------------------------
\* State
\* ------------------------------------------------------------------------
VARIABLES
    objs,       \* the entry objects constructed for the archive, by identity
    entries,    \* archive.entries: the identities, in order
    password,   \* archive.password
    eofDir,     \* archive.eofDir
    stream,     \* archive.stream: the bytes of the last completed ReloadInfo
    origin,     \* "created", "opened" (not modified since), "modified"
    source,     \* what the archive whose buffer was opened held
    last,       \* the last operation and the error it threw: [op, err]
    calls,      \* the number of calls made so far
    envs,       \* the ZIP20.Encrypt calls of the last operation
    cIn,        \* cipher alone: [key, buf, crc, rnd]
    cEnc,       \* cipher alone: the result of ZIP20.Encrypt
    cDec,       \* cipher alone: the result of ZIP20.Decrypt
    cPc,        \* cipher alone: "start", "encrypted", "decrypted"
    sBuf,       \* scan alone: the input buffer
    sFp,        \* scan alone: stream.fp
    sPc         \* scan alone: "scanning", "found", "notfound", "rangeerror"

archiveVars == <<objs, entries, password, eofDir, stream, origin, source, last, calls, envs>>
cipherVars == <<cIn, cEnc, cDec, cPc>>
scanVars == <<sBuf, sFp, sPc>>
vars == <<objs, entries, password, eofDir, stream, origin, source, last, calls, envs,
          cIn, cEnc, cDec, cPc, sBuf, sFp, sPc>>

EnvLog(env) == [header |-> env.header, plain |-> env.plain,
                compLen |-> Len(env.comp), outLen |-> Len(env.out)]

EnvLogOf(env) == IF env.used THEN <<EnvLog(env)>> ELSE <<>>

Touched == IF origin = "opened" THEN "modified" ELSE origin

NoSource == [exact |-> FALSE, created |-> FALSE, items |-> <<>>]

CipherIdle ==
    /\ cIn = [key |-> <<>>, buf |-> <<>>, crc |-> ToWord(0), rnd |-> [i \in 1..HEADER_LENGTH |-> 0]]
    /\ cEnc = <<>>
    /\ cDec = <<>>
    /\ cPc = "idle"

ScanIdle ==
    /\ sBuf = <<>>
    /\ sFp = 0
    /\ sPc = "idle"

\* new ZipArchive(filename)
ArchiveInit ==
    /\ objs = <<>>
    /\ entries = <<>>
    /\ password = <<>>
    /\ eofDir = NewEndOfCentralDirectory
    /\ stream = <<>>
    /\ origin = "created"
    /\ source = NoSource
    /\ last = [op |-> "new", err |-> "none"]
    /\ calls = 0
    /\ envs = <<>>

Init == ArchiveInit /\ CipherIdle /\ ScanIdle

\* ------------------------------------------------------------------------
\* Archive operations
\* ------------------------------------------------------------------------
\* archive.CreateEntry(entryName, buf?)
CreateEntry ==
    /\ UNCHANGED <<cipherVars, scanVars>>
    /\ calls < MaxCalls
    /\ calls' = calls + 1
    /\ Len(objs) < MaxEntries
    /\ \E entryName \in Names, buf \in Plaintexts \cup {Undefined}, rnd \in ArchiveFillers :
          \E r \in {NewEntry(entryName, buf, password, rnd)} :
              /\ objs' = Append(objs, r.e)
              /\ entries' = Append(entries, Len(objs) + 1)
              /\ envs' = EnvLogOf(r.env)
              /\ last' = [op |-> "edit", err |-> "none"]
    /\ origin' = Touched
    /\ UNCHANGED <<password, eofDir, stream, source>>

\* entry.Write(data)
Write ==
    /\ UNCHANGED <<cipherVars, scanVars>>
    /\ calls < MaxCalls
    /\ calls' = calls + 1
    /\ \E id \in 1..Len(objs), data \in Plaintexts, rnd \in ArchiveFillers :
          \E r \in {WriteEntry(objs[id], data, password, rnd)} :
              /\ objs' = [objs EXCEPT ![id] = r.e]
              /\ envs' = EnvLogOf(r.env)
              /\ last' = [op |-> "edit", err |-> "none"]
    /\ origin' = Touched
    /\ UNCHANGED <<entries, password, eofDir, stream, source>>

\* entry.Password = val
SetEntryPassword ==
    /\ UNCHANGED <<cipherVars, scanVars>>
    /\ calls < MaxCalls
    /\ calls' = calls + 1
    /\ \E id \in 1..Len(objs), val \in Keys \cup {<<>>} :
          /\ objs' = [objs EXCEPT ![id] = SetPassword(objs[id], val)]
          /\ last' = [op |-> "edit", err |-> "none"]
    /\ envs' = <<>>
    /\ origin' = Touched
    /\ UNCHANGED <<entries, password, eofDir, stream, source>>

\* archive.Password = val
SetArchivePassword ==
    /\ UNCHANGED <<cipherVars, scanVars>>
    /\ calls < MaxCalls
    /\ calls' = calls + 1
    /\ \E val \in Keys \cup {<<>>} :
          /\ password' = val
          /\ last' = [op |-> "edit", err |-> "none"]
    /\ envs' = <<>>
    /\ origin' = Touched
    /\ UNCHANGED <<objs, entries, eofDir, stream, source>>

\* entry.Delete() on the entry object id
DeleteEntry(id) ==
    /\ UNCHANGED <<cipherVars, scanVars>>
    /\ calls < MaxCalls
    /\ calls' = calls + 1
    /\ LET idx == findIndex(objs, entries, objs[id].central.filename)
       IN  IF idx = 0
           THEN /\ entries' = entries
                /\ last' = [op |-> "delete", err |-> "Can not find entry in archive"]
           ELSE /\ entries' = splice(entries, idx)
                /\ last' = [op |-> "delete", err |-> "none"]
    /\ envs' = <<>>
    /\ origin' = Touched
    /\ UNCHANGED <<objs, password, eofDir, stream, source>>

Delete == \E id \in 1..Len(objs) : DeleteEntry(id)

\* entry.Read()
Read ==
    /\ UNCHANGED <<cipherVars, scanVars>>
    /\ calls < MaxCalls
    /\ calls' = calls + 1
    /\ \E id \in 1..Len(objs) :
          \E r \in {ReadEntry(objs[id], password)} :
              /\ objs' = [objs EXCEPT ![id] = r.e]
              /\ last' = [op |-> "read", err |-> r.err]
    /\ envs' = <<>>
    /\ origin' = Touched
    /\ UNCHANGED <<entries, password, eofDir, stream, source>>

\* archive.Stream (ReloadInfo, then the buffer)
Serialize ==
    /\ UNCHANGED <<cipherVars, scanVars>>
    /\ calls < MaxCalls
    /\ calls' = calls + 1
    /\ \E rnds \in [1..Len(entries) -> ArchiveFillers] :
          \E r \in {ReloadInfo(objs, entries, eofDir, stream, rnds)} :
              /\ objs' = r.objs
              /\ eofDir' = r.eofDir
              /\ stream' = r.stream
              /\ envs' = [i \in 1..Len(r.envs) |-> EnvLog(r.envs[i])]
              /\ last' = [op |-> "serialize", err |-> r.err]
    /\ UNCHANGED <<entries, password, origin, source>>

\* what a caller sees of the entries of the archive
Summary ==
    [i \in 1..Len(entries) |->
        [name |-> objs[entries[i]].central.filename,
         raw |-> objs[entries[i]].raw,
         headerOffset |-> objs[entries[i]].central.headerOffset,
         headerEncrypted |-> objs[entries[i]].header.flags.Encrypted,
         centralEncrypted |-> objs[entries[i]].central.flags.Encrypted]]

\* a copy of a serialized buffer whose end record claims `other` more
\* records in total than on this disk
WithOtherDisk(buf, other) ==
    LET at == Len(buf) - 22
        total == U16(RdU16(buf, at + 8) + other)
    IN  [i \in 1..Len(buf) |->
            IF i = at + 11 THEN total[1] ELSE IF i = at + 12 THEN total[2] ELSE buf[i]]

\* new ZipArchive(filename, buffer) on the buffer the last Stream returned
Open ==
    /\ UNCHANGED <<cipherVars, scanVars>>
    /\ calls < MaxCalls
    /\ calls' = calls + 1
    /\ last.op = "serialize"
    /\ last.err = "none"
    /\ \E other \in 0..MaxOtherDisk :
          \E buf \in {WithOtherDisk(stream, other)} : \E r \in {OpenArchive(buf)} :
              IF r.err # "none"
              THEN /\ last' = [op |-> "open", err |-> r.err]
                   /\ UNCHANGED <<objs, entries, password, eofDir, stream, origin, source>>
              ELSE /\ objs' = r.objs
                   /\ entries' = [i \in 1..Len(r.objs) |-> i]
                   /\ password' = <<>>
                   /\ eofDir' = r.eofDir
                   /\ stream' = buf
                   /\ origin' = "opened"
                   /\ source' = [exact |-> (other = 0), created |-> (origin = "created"),
                                 items |-> Summary]
                   /\ last' = [op |-> "open", err |-> "none"]
    /\ envs' = <<>>

Next ==
    \/ CreateEntry
    \/ Write
    \/ SetEntryPassword
    \/ SetArchivePassword
    \/ Delete
    \/ Read
    \/ Serialize
    \/ Open

Spec == Init /\ [][Next]_vars

\* ------------------------------------------------------------------------
\* The cipher alone: ZIP20.Encrypt followed by ZIP20.Decrypt
\* ------------------------------------------------------------------------
CipherKeys == {<<>>, <<115>>, <<115, 101>>}             \* "", "s", "se"
CipherBytes == {0, 104, 255}
CipherCrcs == {ToWord(0), <<38, 57, 244, 203>>}         \* 0, 0xCBF43926

CipherInit ==
    /\ ArchiveInit
    /\ ScanIdle
    /\ cIn \in [key : CipherKeys, buf : SeqsUpTo(CipherBytes, MaxBufLen),
                crc : CipherCrcs, rnd : Fillers]
    /\ cEnc = <<>>
    /\ cDec = <<>>
    /\ cPc = "start"

CipherEncrypt ==
    /\ UNCHANGED <<archiveVars, scanVars>>
    /\ cPc = "start"
    /\ cEnc' = ZIP20Encrypt(cIn.buf, cIn.key, cIn.crc, cIn.rnd)
    /\ cPc' = "encrypted"
    /\ UNCHANGED <<cIn, cDec>>

CipherDecrypt ==
    /\ UNCHANGED <<archiveVars, scanVars>>
    /\ cPc = "encrypted"
    /\ cDec' = ZIP20Decrypt(cEnc, cIn.key)
    /\ cPc' = "decrypted"
    /\ UNCHANGED <<cIn, cEnc>>

CipherNext ==
    \/ CipherEncrypt
    \/ CipherDecrypt

SpecCipher == CipherInit /\ [][CipherNext]_vars

\* ------------------------------------------------------------------------
\* The backward scan of the constructor alone, one loop iteration per step
\* ------------------------------------------------------------------------
ScanChunks == {EOCD_SIGNATURE, <<80>>, <<0>>}

RECURSIVE Concat(_)
Concat(ss) == IF ss = <<>> THEN <<>> ELSE Head(ss) \o Concat(Tail(ss))

ScanBuffers == {Concat(ss) : ss \in SeqsUpTo(ScanChunks, MaxChunks)}

\* stream.fp = stream.length - SIZE.UINT32
ScanInit ==
    /\ ArchiveInit
    /\ CipherIdle
    /\ sBuf \in ScanBuffers
    /\ sFp = Len(sBuf) - 4
    /\ sPc = "scanning"

\* isEOCD(stream) is true: the loop ends
ScanMatch ==
    /\ UNCHANGED <<archiveVars, cipherVars>>
    /\ sPc = "scanning"
    /\ InRange(sBuf, sFp, 4)
    /\ isEOCD(sBuf, sFp)
    /\ sPc' = "found"
    /\ UNCHANGED <<sBuf, sFp>>

\* isEOCD(stream) is false and stream.fp !== 0
ScanBack ==
    /\ UNCHANGED <<archiveVars, cipherVars>>
    /\ sPc = "scanning"
    /\ InRange(sBuf, sFp, 4)
    /\ ~isEOCD(sBuf, sFp)
    /\ sFp # 0
    /\ sFp' = sFp - 1
    /\ UNCHANGED <<sBuf, sPc>>

\* isEOCD(stream) is false and stream.fp === 0: throw 'Can not read Zip Archive'
ScanFail ==
    /\ UNCHANGED <<archiveVars, cipherVars>>
    /\ sPc = "scanning"
    /\ InRange(sBuf, sFp, 4)
    /\ ~isEOCD(sBuf, sFp)
    /\ sFp = 0
    /\ sPc' = "notfound"
    /\ UNCHANGED <<sBuf, sFp>>

\* stream.readUint32() outside the buffer: the cursor either throws a range
\* error or yields a value that is not the signature and the loop goes on
ScanOutOfRange ==
    /\ UNCHANGED <<archiveVars, cipherVars>>
    /\ sPc = "scanning"
    /\ ~InRange(sBuf, sFp, 4)
    /\ \/ /\ sPc' = "rangeerror"
          /\ UNCHANGED <<sBuf, sFp>>
       \/ /\ sFp # 0
          /\ sFp > -MaxUnderrun
          /\ sFp' = sFp - 1
          /\ UNCHANGED <<sBuf, sPc>>

ScanNext ==
    \/ ScanMatch
    \/ ScanBack
    \/ ScanFail
    \/ ScanOutOfRange

SpecScan == ScanInit /\ [][ScanNext]_vars

\* ------------------------------------------------------------------------
\* Archives of other writers: a buffer holding one entry, stored or deflated,
\* plain or encrypted, opened and then read, given passwords and serialized
\* ------------------------------------------------------------------------
ForeignKey == <<115>>                                   \* "s"

\* the payload another writer stores for plain under the method
ForeignPacked(plain, method) ==
    IF method = DEFLATED THEN deflateRawSync(plain) ELSE plain

\* the bytes of the archive: local header and payload, central directory
\* record, end record
ForeignRecords(name, plain, method, enc, crc, payload) ==
    LET h == [NewLocalFileHeader EXCEPT !.flags.Encrypted = enc,
                                        !.compression = method,
                                        !.crc32 = crc,
                                        !.compressedSize = Len(payload),
                                        !.uncompressedSize = Len(plain),
                                        !.filenameLen = Len(name),
                                        !.filename = name]
        c == [NewCentralDirectory EXCEPT !.flags.Encrypted = enc,
                                         !.compression = method,
                                         !.crc32 = crc,
                                         !.compressedSize = Len(payload),
                                         !.uncompressedSize = Len(plain),
                                         !.filenameLen = Len(name),
                                         !.filename = name]
        eof == [NewEndOfCentralDirectory EXCEPT
                    !.recordNum = 1,
                    !.totalNum = 1,
                    !.recordSize = 46 + Len(name),
                    !.recordStart = 30 + Len(name) + Len(payload)]
    IN  LocalFileHeaderBytes(h, payload) \o CentralDirectoryBytes(c)
        \o EndOfCentralDirectoryBytes(eof)

ForeignArchive(name, plain, method, enc, rnd) ==
    ForeignRecords(name, plain, method, enc, CRC32buf(plain),
                   IF enc
                   THEN ZIP20Encrypt(ForeignPacked(plain, method), ForeignKey,
                                     CRC32buf(plain), rnd)
                   ELSE ForeignPacked(plain, method))

ForeignBuffers ==
    {ForeignArchive(name, plain, method, enc, rnd) :
        name \in Names, plain \in Plaintexts, method \in {NO_COMPRESSION, DEFLATED},
        enc \in BOOLEAN, rnd \in ArchiveFillers}

\* new ZipArchive(filename, buffer) on such a buffer
StoreInit ==
    /\ CipherIdle
    /\ ScanIdle
    /\ \E buf \in ForeignBuffers : \E r \in {OpenArchive(buf)} :
          /\ r.err = "none"
          /\ objs = r.objs
          /\ entries = [i \in 1..Len(r.objs) |-> i]
          /\ eofDir = r.eofDir
          /\ stream = buf
    /\ password = <<>>
    /\ origin = "opened"
    /\ source = NoSource
    /\ last = [op |-> "open", err |-> "none"]
    /\ calls = 0
    /\ envs = <<>>

StoreNext ==
    \/ SetEntryPassword
    \/ Read
    \/ Serialize

SpecStore == StoreInit /\ [][StoreNext]_vars

\* ------------------------------------------------------------------------
\* Properties
\* ------------------------------------------------------------------------
\* the last call was archive.Stream and it returned a buffer
AfterSerialize == last.op = "serialize" /\ last.err = "none"

\* the entry at position i of the collection
EntryAt(i) == objs[entries[i]]

\* C1: round trip.  When an archive built through createEntry/write has been
\* serialized, the buffer opened, and the opened archive serialized again,
\* that second serialize succeeds and the opened archive has the same entry
\* names in the same order, the same plaintexts via read() and the same
\* encrypted flags as the original.
C1_RoundTrip ==
    (origin = "opened" /\ source.exact /\ source.created /\ last.op = "serialize") =>
        /\ last.err = "none"
        /\ Len(entries) = Len(source.items)
        /\ \A i \in 1..Len(entries) :
              LET r == ReadEntry(EntryAt(i), password)
              IN  /\ EntryAt(i).central.filename = source.items[i].name
                  /\ r.err = "none"
                  /\ r.val = source.items[i].raw
                  /\ EntryAt(i).header.flags.Encrypted = source.items[i].headerEncrypted
                  /\ EntryAt(i).central.flags.Encrypted = source.items[i].centralEncrypted

\* the key state after the first n bytes of an encryption / a decryption
EncKeysAfter(n) ==
    encrypt(CryptoChiper(cIn.key),
            SubSeq(EnvelopeHeader(cIn.rnd, cIn.crc) \o cIn.buf, 1, n)).keys

DecKeysAfter(n) == decrypt(CryptoChiper(cIn.key), SubSeq(cEnc, 1, n)).keys

\* C2: cipher symmetry.  ZIP20.Decrypt(ZIP20.Encrypt(bytes, password, crc),
\* password) is bytes, for every password, crc and filler, and after each
\* byte the encrypting and the decrypting key states are equal.
C2_CipherSymmetry ==
    /\ cPc = "decrypted" => cDec = cIn.buf
    /\ cPc \in {"encrypted", "decrypted"} =>
          /\ Len(cEnc) = HEADER_LENGTH + Len(cIn.buf)
          /\ \A n \in 0..Len(cEnc) : EncKeysAfter(n) = DecKeysAfter(n)

\* a decryption of a buffer of full length under a non-empty password, whose
\* ciphertext differs from the plaintext
C2_Witness ==
    /\ cPc = "decrypted"
    /\ Len(cIn.buf) = MaxBufLen
    /\ cIn.key # <<>>
    /\ cEnc # EnvelopeHeader(cIn.rnd, cIn.crc) \o cIn.buf
    /\ cDec = cIn.buf

\* C3: CRC invariant.  After serialize(), for every entry, read() returns a
\* plaintext and the crc32 of the local header and of the central record both
\* equal the CRC-32 of that plaintext.
C3_CrcInvariant ==
    AfterSerialize =>
        \A i \in 1..Len(entries) :
            LET r == ReadEntry(EntryAt(i), password)
            IN  /\ r.err = "none"
                /\ EntryAt(i).header.crc32 = CRC32buf(r.val)
                /\ EntryAt(i).central.crc32 = CRC32buf(r.val)

\* the offset in buf of the i-th central directory record, the first at fp
RECURSIVE CentralRecordAt(_, _, _)
CentralRecordAt(buf, fp, i) ==
    IF i = 1 THEN fp
    ELSE CentralRecordAt(buf, fp + 46 + RdU16(buf, fp + 28) + RdU16(buf, fp + 30)
                                  + RdU16(buf, fp + 32), i - 1)

\* the headerOffset field of the i-th central directory record of the stream
StreamHeaderOffset(i) ==
    RdU32(stream, CentralRecordAt(stream, RdU32(stream, Len(stream) - 22 + 16), i) + 42)

\* the length in the stream of the local header at offset off and its payload
StreamLocalLength(off) ==
    30 + RdU16(stream, off + 26) + RdU16(stream, off + 28) + RdU32(stream, off + 18)

\* C4: offset invariant.  After serialize(), every entry's central-record
\* headerOffset (in memory and in the output buffer) points at a local-header
\* signature in the output buffer, the first is 0, and each later one is the
\* previous one plus the serialized length of the previous local header and
\* payload.
C4_OffsetInvariant ==
    AfterSerialize =>
        \A i \in 1..Len(entries) :
            LET off == EntryAt(i).central.headerOffset
            IN  /\ StreamHeaderOffset(i) = off
                /\ InRange(stream, off, 4)
                /\ RdW(stream, off) = LFH_SIGNATURE
                /\ i = 1 => off = 0
                /\ i > 1 => off = EntryAt(i - 1).central.headerOffset
                                  + StreamLocalLength(EntryAt(i - 1).central.headerOffset)

\* an opened archive, modified and serialized, whose second entry no longer
\* sits at the offset its central record carried when loaded
C4_Witness ==
    /\ AfterSerialize
    /\ origin = "modified"
    /\ Len(entries) = 2
    /\ Len(source.items) = 2
    /\ entries = <<1, 2>>
    /\ EntryAt(2).central.headerOffset # source.items[2].headerOffset
    /\ EntryAt(2).central.headerOffset > 0

\* C5: directory count.  After serialize(), the end record's recordNum and
\* totalNum both equal the number of entries of the archive.
C5_DirectoryCount ==
    AfterSerialize =>
        /\ eofDir.recordNum = Len(entries)
        /\ eofDir.totalNum = Len(entries)
        /\ RdU16(stream, Len(stream) - 22 + 8) = Len(entries)
        /\ RdU16(stream, Len(stream) - 22 + 10) = Len(entries)

\* every entry was written under the archive password and has none of its own
UnderArchivePassword ==
    /\ Truthy(password)
    /\ Len(entries) > 0
    /\ \A i \in 1..Len(entries) :
          /\ EntryAt(i).passwd = Undefined
          /\ EntryAt(i).raw # Undefined
          /\ EntryAt(i).header.flags.Encrypted

\* C6: archive-level password fallback.  With the archive password set and
\* entries created with data and no password of their own, serialize()
\* succeeds, each such entry is flagged encrypted, its stored compressedSize is
\* 12 plus the length of the deflated plaintext, and read() of the reopened
\* entry under the archive password returns the plaintext.
C6_ArchiveFallback ==
    (origin = "created" /\ last.op = "serialize" /\ UnderArchivePassword) =>
        /\ last.err = "none"
        /\ LET reopened == OpenArchive(stream)
           IN  /\ reopened.err = "none"
               /\ Len(reopened.objs) = Len(entries)
               /\ \A i \in 1..Len(entries) :
                     /\ reopened.objs[i].central.flags.Encrypted
                     /\ reopened.objs[i].central.compressedSize
                           = HEADER_LENGTH + Len(deflateRawSync(EntryAt(i).raw))
                     /\ ReadEntry(reopened.objs[i], password).err = "none"
                     /\ ReadEntry(reopened.objs[i], password).val = EntryAt(i).raw

\* the collection without the identity id
RECURSIVE Without(_, _)
Without(ents, id) ==
    IF ents = <<>> THEN <<>>
    ELSE IF Head(ents) = id THEN Without(Tail(ents), id)
    ELSE <<Head(ents)>> \o Without(Tail(ents), id)

\* C7: delete() on an entry of the collection removes exactly that entry and
\* keeps the others in order; on an entry no longer in the collection it
\* fails and leaves the collection unchanged.
C7_DeleteExact ==
    [][\A id \in 1..Len(objs) :
          DeleteEntry(id) =>
              IF \E i \in 1..Len(entries) : entries[i] = id
              THEN last'.err = "none" /\ entries' = Without(entries, id)
              ELSE last'.err # "none" /\ entries' = entries]_vars

\* some offset of the scanned buffer holds the end-record signature
ScanHasMatch == \E p \in 0..(Len(sBuf) - 4) : isEOCD(sBuf, p)

\* C8: end-of-directory discovery.  For every buffer the scan stays within the
\* buffer, ends at the greatest offset that holds the signature, and when no
\* offset does it fails with the directory-not-found error.
C8_ScanFindsLast ==
    /\ sPc = "found" =>
          /\ isEOCD(sBuf, sFp)
          /\ \A p \in (sFp + 1)..(Len(sBuf) - 4) : ~isEOCD(sBuf, p)
    /\ sPc \in {"notfound", "rangeerror"} => (sPc = "notfound" /\ ~ScanHasMatch)
    /\ sPc = "scanning" => (sFp >= 0 \/ sFp = Len(sBuf) - 4)

\* C9: encryption envelope.  For every ZIP20.Encrypt call made by write() or
\* serialize(), bytes 10 and 11 of the header before encryption are the bytes
\* at offsets 2 and 3 of the little-endian CRC-32 of the entry's plaintext, and
\* the payload is 12 bytes longer than the compressed data.
C9_Envelope ==
    \A i \in 1..Len(envs) :
        /\ envs[i].header[11] = CRC32buf(envs[i].plain)[3]
        /\ envs[i].header[12] = CRC32buf(envs[i].plain)[4]
        /\ envs[i].outLen = HEADER_LENGTH + envs[i].compLen

\* C10: encrypted-flag agreement.  In every reachable state each entry's
\* central-record encrypted flag equals its local-header encrypted flag.
C10_FlagAgreement ==
    \A id \in 1..Len(objs) :
        objs[id].central.flags.Encrypted = objs[id].header.flags.Encrypted

\* the entry is flagged encrypted and neither it nor the archive has a
\* non-empty password
NoPasswordFor(e) ==
    /\ e.header.flags.Encrypted
    /\ ~Truthy(e.passwd)
    /\ ~Truthy(password)

\* C11: missing password is a fail-fast error.  read() of an entry flagged
\* encrypted, and serialize() of an archive holding such an entry, throw when
\* neither the entry nor the archive has a non-empty password (whatever the
\* error is called): the cipher is not run with an empty or absent key and no
\* bytes are returned.  serialize() changes neither flags nor passwords, so
\* the condition is read off the state it leaves.
C11_MissingPassword ==
    /\ \A i \in 1..Len(entries) :
          NoPasswordFor(EntryAt(i)) => ReadEntry(EntryAt(i), password).err # "none"
    /\ (last.op = "serialize" /\ \E i \in 1..Len(entries) : NoPasswordFor(EntryAt(i)))
          => last.err # "none"

\* serialize() has what it needs for the entry: the cached plaintext, a
\* supported method and, when the entry is flagged encrypted, its password
Serializable(e) ==
    /\ e.raw # Undefined
    /\ e.header.compression \in {NO_COMPRESSION, DEFLATED}
    /\ e.header.flags.Encrypted => e.passwd # Undefined

\* the payload in the stream behind the local header at offset off
StreamPayload(off) ==
    RdBuf(stream, off + 30 + RdU16(stream, off + 26) + RdU16(stream, off + 28),
          RdU32(stream, off + 18))

\* C12: serialize() handles both methods.  For entries that are stored (0) or
\* deflated (8), serialize() completes, the payload written is the cached
\* plaintext unchanged (store) or deflated (deflate), encrypted under the
\* entry's password when it is flagged, and the stored compressedSize is the
\* payload length.
C12_BothMethods ==
    (last.op = "serialize" /\ \A i \in 1..Len(entries) : Serializable(EntryAt(i))) =>
        /\ last.err = "none"
        /\ \A i \in 1..Len(entries) :
              LET e == EntryAt(i)
                  payload == StreamPayload(e.central.headerOffset)
                  packed == IF e.header.compression = DEFLATED
                            THEN deflateRawSync(e.raw) ELSE e.raw
              IN  /\ e.header.compressedSize = Len(payload)
                  /\ e.central.compressedSize = Len(payload)
                  /\ ~e.header.flags.Encrypted => payload = packed
                  /\ e.header.flags.Encrypted =>
                        ZIP20Decrypt(payload, e.passwd) = packed

\* C13: cached plaintext is stable.  An entry's raw field is the plaintext of
\* its last write() or successful read(); no other operation assigns it.  In
\* every state where it is resolved, read() returns exactly it, and the local
\* header's compressedSize is the length of the header's stored data.
C13_CachedPlaintext ==
    \A id \in 1..Len(objs) :
        objs[id].raw # Undefined =>
            /\ ReadEntry(objs[id], password).err = "none"
            /\ ReadEntry(objs[id], password).val = objs[id].raw
            /\ objs[id].header.compressedSize = Len(objs[id].header.data)

====
